---------------------------- MODULE Spec2Model ----------------------------
(***************************************************************************)
(* A model of the tile server (src/server.js): the archive registry that   *)
(* the startup scan fills, the three route handlers behind the CORS        *)
(* middleware, and the shutdown sequence started by SIGTERM / SIGINT.      *)
(*                                                                         *)
(* Names are sequences of their dot-separated parts: the file a.mbtiles is *)
(* <<"a", "mbtiles">> and the path parameter a is <<"a">>, so that the     *)
(* template `${file}.mbtiles` is Append and endsWith('.mbtiles') looks at  *)
(* the last part.  Messages of error values are sequences of phrases, and  *)
(* String.prototype.includes is a search for a contiguous run of them.     *)
(***************************************************************************)
EXTENDS Integers, Sequences, FiniteSets, TLC

VARIABLES
    allowedOrigins,  \* line 15: the parsed ALLOWED_ORIGINS
    proc,            \* "running" | "exited"
    exitCode,        \* the status passed to process.exit (read only once exited)
    exitCause,       \* which statement ended the process
    scan,            \* "pending" | "listed" | "unreadable": the fs.readdir callback
    openState,       \* per file: "none" | "loading" | "ready" | "failed"
    openCount,       \* per file: how many times new MBTiles(...) was called
    tileServers,     \* line 63: the registry, a function from file names to handles
    closeCalls,      \* per handle: how many times tileServer.close was called
    listening,       \* whether the HTTP server accepts connections
    reqs,            \* the requests received so far, in order of arrival
    signalCount,     \* termination signals delivered
    timers,          \* deadlines of the pending setTimeout callbacks (line 182)
    closeCallbacks,  \* callbacks registered through server.close (line 171)
    inflightAtSignal,\* indices of the requests in flight at the first signal
    now              \* milliseconds since the first termination signal

vars == << allowedOrigins, proc, exitCode, exitCause, scan, openState, openCount,
           tileServers, closeCalls, listening, reqs, signalCount, timers,
           closeCallbacks, inflightAtSignal, now >>

(***************************************************************************)
(* Bounds of the model.                                                    *)
(***************************************************************************)
MaxRequests == 1
MaxSignals == 2
TickMs == 5000

(***************************************************************************)
(* Values of the program.                                                  *)
(***************************************************************************)
ShutdownTimeoutMs == 10000

Undefined == << >>
Unset == "<unset>"
NoOrigin == "<no origin header>"
Ext == "mbtiles"

\* The files fs.readdir can list, and the listings the model draws from.
AllFiles == { <<"a", Ext>>, <<"b", Ext>>, <<"notes", "txt">> }
Listings == { {}, {<<"a", Ext>>, <<"notes", "txt">>},
              {<<"a", Ext>>, <<"b", Ext>>, <<"notes", "txt">>} }

\* The :file path parameters and the coordinates the model draws from: the two
\* archives by name at both coordinates, and an archive by its file name.
RequestNames == { <<"a">>, <<"b">>, <<"a", Ext>> }
Coords == { <<0, 0, 0>>, <<1, 1, 1>> }
TilePaths ==
    ({ <<"a">>, <<"b">> } \X Coords) \cup { << <<"a", Ext>>, <<0, 0, 0>> >> }
\* The Origin headers of requests, and the values of ALLOWED_ORIGINS: unset (the
\* wildcard), a list that holds the origin, and a list that does not.
Origins == { NoOrigin, "http://example.com" }
OriginConfigs == { {"*"}, {"http://example.com"}, {"http://other.example"} }


(***************************************************************************)
(* Strings.                                                                *)
(***************************************************************************)
\* line 73: file.endsWith('.mbtiles'): a dot followed by the extension.
EndsWithExt(file) == Len(file) >= 2 /\ file[Len(file)] = Ext

\* A lookup under the bare path parameter.
RegistryKeyBare(file) == file

\* lines 102, 144: `${file}.mbtiles`.
RegistryKey(file) == Append(file, Ext)

\* line 112: String.prototype.includes.
Includes(message, needle) ==
    \E i \in 1..(Len(message) + 1) :
        /\ i + Len(needle) - 1 <= Len(message)
        /\ SubSeq(message, i, i + Len(needle) - 1) = needle

TileDoesNotExist == << "Tile does not exist" >>

(***************************************************************************)
(* The external reader: what its callbacks can be handed.                  *)
(***************************************************************************)
HeaderKeys == { "access-control-allow-origin", "content-type", "cache-control",
                "x-content-type-options", "content-encoding" }

NoHeaders == [k \in {} |-> Unset]

\* The header objects an archive can hand back with a tile.
ArchiveHeaderChoices ==
    { ("content-type" :> "image/png") @@ ("content-encoding" :> "gzip") }

\* An error value: an Error with its message, or a value that has no message
\* property at all (a string, a bare object).
ErrorWith(message) == [type |-> "err", hasMessage |-> TRUE, message |-> message]
ErrorWithoutMessage == [type |-> "err", hasMessage |-> FALSE, message |-> << >>]

\* The reader's "tile absent" report (the library's Error('Tile does not exist')).
AbsentReport == ErrorWith(TileDoesNotExist)

\* The failures of a fetch other than "tile absent".
FetchFailures ==
    { ErrorWith(<< "SQLITE_ERROR" >>), ErrorWith(<< >>), ErrorWithoutMessage }

\* (null, tile, headers), headers possibly undefined.
TilesFound ==
    [type : {"tile"}, hasHeaders : {TRUE}, headers : ArchiveHeaderChoices]
        \cup { [type |-> "tile", hasHeaders |-> FALSE, headers |-> NoHeaders] }

\* The archives hold the tile (0,0,0) and no tile (1,1,1), as the reader of
\* tests/api.test.js does; a fetch of a tile that is there may also fail.
TileResults(coord) ==
    IF coord = << 0, 0, 0 >> THEN TilesFound \cup FetchFailures ELSE { AbsentReport }

AllTileResults == TilesFound \cup FetchFailures \cup { AbsentReport }

\* getInfo's callback: (err) or (null, info).
InfoResults ==
    { ErrorWith(<< "SQLITE_ERROR" >>), ErrorWithoutMessage, [type |-> "info"] }

NoReply == [type |-> "none"]

(***************************************************************************)
(* Responses.                                                              *)
(***************************************************************************)
BlankHeaders == [k \in HeaderKeys |-> Unset]

\* res.set(obj): every key of obj replaces the header of that name.
SetHeaders(headers, obj) ==
    [k \in HeaderKeys |-> IF k \in DOMAIN obj THEN obj[k] ELSE headers[k]]

\* lines 123-128.
DefaultTileHeaders ==
    ("content-type" :> "application/x-protobuf")
        @@ ("access-control-allow-origin" :> "*")
        @@ ("cache-control" :> "public, max-age=3600")
        @@ ("x-content-type-options" :> "nosniff")

\* lines 17-23: the origin callback of corsOptions.
\* An origin check that also admits a request without an Origin header.
OriginAllowedOrAbsent(origin) ==
    "*" \in allowedOrigins \/ origin \in allowedOrigins \/ origin = NoOrigin

\* lines 18-19: the test of the origin callback.
OriginAllowed(origin) ==
    "*" \in allowedOrigins \/ origin \in allowedOrigins

\* lines 16-28: cors(corsOptions) after the callback answered (null, true): the
\* package reflects the request's Origin header when the origin option is true, and
\* sets nothing when the request carries no Origin.
CorsHeaders(origin) ==
    IF origin = NoOrigin
    THEN BlankHeaders
    ELSE SetHeaders(BlankHeaders, "access-control-allow-origin" :> origin)

\* A request that has been received and not yet handled.
NewRequest(kind, name, coord, origin) ==
    [ kind |-> kind, name |-> name, coord |-> coord, origin |-> origin,
      stage |-> "received", routed |-> FALSE, handle |-> Undefined,
      readerCalls |-> 0, reply |-> NoReply, sent |-> 0,
      status |-> 0, body |-> "", headers |-> BlankHeaders ]

\* res.status(status).send(body): the response goes out and the request is over.
Respond(r, status, body) ==
    [r EXCEPT !.stage = "done", !.status = status, !.body = body, !.sent = @ + 1]

\* lines 163-166: the error middleware.
ErrorMiddleware(r) == Respond(r, 500, "Internal Server Error")


(***************************************************************************)
(* The route handlers and the callbacks they hand to the reader.           *)
(***************************************************************************)
\* A lookup that normalises the parameter to its first part before it adds the
\* extension.
LookupNormalised(file) ==
    IF file # << >> /\ << file[1], Ext >> \in DOMAIN tileServers
    THEN tileServers[<< file[1], Ext >>]
    ELSE Undefined

\* lines 102, 144: tileServers[`${file}.mbtiles`].
Lookup(file) ==
    IF RegistryKey(file) \in DOMAIN tileServers
    THEN tileServers[RegistryKey(file)]
    ELSE Undefined

\* lines 88-96.
HealthHandler(r) ==
    IF Cardinality(DOMAIN tileServers) > 0
    THEN Respond(r, 200, "OK")
    ELSE Respond(r, 503, "Tile server not initialized")

\* line 112: err.message is undefined, so .includes throws a TypeError.
CallbackThrows(res) == res.type = "err" /\ ~res.hasMessage

\* An error branch that answers every error alike.
TileErrorResponseAlways500(r, err) == Respond(r, 500, "Error loading tile")

\* lines 111-120: the error branch of getTile's callback.
TileErrorResponse(r, err) ==
    IF Includes(err.message, TileDoesNotExist)
    THEN Respond(r, 204, "")
    ELSE Respond(r, 500, "Error loading tile")

\* The archive's headers first and the defaults over them.
TileHeadersDefaultsLast(headers, res) ==
    LET archive == IF res.hasHeaders THEN SetHeaders(headers, res.headers) ELSE headers
    IN  SetHeaders(archive, DefaultTileHeaders)

\* lines 122-134: the defaults, then every header of the archive over them.
TileHeaders(headers, res) ==
    LET defaults == SetHeaders(headers, DefaultTileHeaders)
    IN  IF res.hasHeaders THEN SetHeaders(defaults, res.headers) ELSE defaults

\* A callback whose error branch does not return, so that res.send(tile) follows.
TileCallbackFallsThrough(r, res) ==
    LET got == [r EXCEPT !.reply = res]
    IN  IF res.type = "err"
        THEN [Respond(TileErrorResponse(got, res), 200, "tile bytes") EXCEPT
                 !.status = TileErrorResponse(got, res).status]
        ELSE [Respond(got, 200, "tile bytes") EXCEPT
                 !.headers = TileHeaders(r.headers, res)]

\* lines 110-137: getTile's callback, where it does not throw.
TileCallback(r, res) ==
    LET got == [r EXCEPT !.reply = res]
    IN  IF res.type = "err"
        THEN TileErrorResponse(got, res)
        ELSE [Respond(got, 200, "tile bytes") EXCEPT
                 !.headers = TileHeaders(r.headers, res)]

\* lines 152-159: getInfo's callback.
InfoCallback(r, res) ==
    LET got == [r EXCEPT !.reply = res]
    IN  IF res.type = "err"
        THEN Respond(got, 500, "Error loading metadata")
        ELSE Respond(got, 200, "info json")

\* process.exit(code), and the exit of an uncaught exception.
Exit(code, cause) ==
    /\ proc' = "exited"
    /\ exitCode' = code
    /\ exitCause' = cause

Exited(code) == proc = "exited" /\ exitCode = code

InFlight == { i \in 1..Len(reqs) : reqs[i].stage = "fetching" }

procVars == << proc, exitCode, exitCause >>
scanVars == << scan, openState, openCount, tileServers >>
stopVars == << listening, signalCount, timers, closeCallbacks, inflightAtSignal, now >>

(***************************************************************************)
(* The initial state: the module has been loaded (lines 1-195), fs.readdir *)
(* is pending and the server listens.                                      *)
(***************************************************************************)
Init ==
    /\ allowedOrigins \in OriginConfigs
    /\ proc = "running"
    /\ exitCode = 0
    /\ exitCause = "none"
    /\ scan = "pending"
    /\ openState = [f \in AllFiles |-> "none"]
    /\ openCount = [f \in AllFiles |-> 0]
    /\ tileServers = [f \in {} |-> Undefined]
    /\ closeCalls = [f \in AllFiles |-> 0]
    /\ listening = TRUE
    /\ reqs = << >>
    /\ signalCount = 0
    /\ timers = << >>
    /\ closeCallbacks = 0
    /\ inflightAtSignal = {}
    /\ now = 0

(***************************************************************************)
(* The startup scan.                                                       *)
(***************************************************************************)
\* A readdir error that is logged and not acted on.
ReaddirErrorLogged ==
    /\ proc = "running"
    /\ scan = "pending"
    /\ scan' = "unreadable"
    /\ UNCHANGED << allowedOrigins, procVars, openState, openCount, tileServers,
                    closeCalls, reqs, stopVars >>

\* lines 66-70: fs.readdir reports an error.
ReaddirError ==
    /\ proc = "running"
    /\ scan = "pending"
    /\ scan' = "unreadable"
    /\ Exit(1, "readdir")
    /\ UNCHANGED << allowedOrigins, openState, openCount, tileServers, closeCalls,
                    reqs, stopVars >>

\* lines 72-84: fs.readdir lists the directory; every archive file gets its open.
ReaddirListed(files) ==
    /\ proc = "running"
    /\ scan = "pending"
    /\ scan' = "listed"
    /\ openState' = [f \in AllFiles |->
                        IF f \in files /\ EndsWithExt(f) THEN "loading" ELSE openState[f]]
    /\ openCount' = [f \in AllFiles |->
                        IF f \in files /\ EndsWithExt(f) THEN openCount[f] + 1
                        ELSE openCount[f]]
    /\ UNCHANGED << allowedOrigins, procVars, tileServers, closeCalls, reqs, stopVars >>

\* An open callback that treats a failed open like a failed readdir.
OpenCallbackFatal(file, ok) ==
    /\ proc = "running"
    /\ openState[file] = "loading"
    /\ IF ok
       THEN /\ tileServers' = (file :> file) @@ tileServers
            /\ openState' = [openState EXCEPT ![file] = "ready"]
            /\ UNCHANGED procVars
       ELSE /\ tileServers' = tileServers
            /\ openState' = [openState EXCEPT ![file] = "failed"]
            /\ Exit(1, "open")
    /\ UNCHANGED << allowedOrigins, scan, openCount, closeCalls, reqs, stopVars >>

\* An open callback that registers the handle before it looks at the error.
OpenCallbackRegistersFirst(file, ok) ==
    /\ proc = "running"
    /\ openState[file] = "loading"
    /\ tileServers' = (file :> file) @@ tileServers
    /\ openState' = [openState EXCEPT ![file] = IF ok THEN "ready" ELSE "failed"]
    /\ UNCHANGED << allowedOrigins, procVars, scan, openCount, closeCalls, reqs,
                    stopVars >>

\* lines 75-82: the callback of new MBTiles(...).
OpenCallback(file, ok) ==
    /\ proc = "running"
    /\ openState[file] = "loading"
    /\ IF ok
       THEN /\ tileServers' = (file :> file) @@ tileServers
            /\ openState' = [openState EXCEPT ![file] = "ready"]
       ELSE /\ tileServers' = tileServers
            /\ openState' = [openState EXCEPT ![file] = "failed"]
    /\ UNCHANGED << allowedOrigins, procVars, scan, openCount, closeCalls, reqs,
                    stopVars >>

(***************************************************************************)
(* Requests.  Express runs the middleware and the route handler of a       *)
(* request in one turn of the event loop; only the reader's callback may   *)
(* come in a later turn.                                                   *)
(***************************************************************************)
Accepting == proc = "running" /\ listening /\ Len(reqs) < MaxRequests

\* The request once cors(corsOptions) has let it through to its route.
Routed(kind, name, coord, origin) ==
    [NewRequest(kind, name, coord, origin) EXCEPT
        !.routed = TRUE, !.headers = CorsHeaders(origin)]

\* lines 17-23, 163-166: the origin callback reports an error, which Express hands
\* to the error middleware; no route handler runs.
CorsRejected(kind, name, coord, origin) ==
    /\ Accepting
    /\ ~OriginAllowed(origin)
    /\ reqs' = Append(reqs, ErrorMiddleware(NewRequest(kind, name, coord, origin)))
    /\ UNCHANGED << allowedOrigins, procVars, scanVars, closeCalls, stopVars >>

\* lines 88-96.
HealthRequest(origin) ==
    /\ Accepting
    /\ OriginAllowed(origin)
    /\ reqs' = Append(reqs, HealthHandler(Routed("health", << >>, << >>, origin)))
    /\ UNCHANGED << allowedOrigins, procVars, scanVars, closeCalls, stopVars >>

\* lines 99-138.  With sync the reader calls back before getTile returns, and an
\* exception of the callback unwinds into Express, which calls the error middleware.
TileRequest(name, coord, origin, sync, res) ==
    /\ Accepting
    /\ OriginAllowed(origin)
    /\ LET r == Routed("tile", name, coord, origin)
           tileServer == Lookup(name)
           called == [r EXCEPT !.handle = tileServer, !.readerCalls = @ + 1]
       IN  reqs' = Append(reqs,
              IF tileServer = Undefined THEN Respond(r, 404, "Tile file not found")
              ELSE IF ~sync THEN [called EXCEPT !.stage = "fetching"]
              ELSE IF CallbackThrows(res)
                   THEN ErrorMiddleware([called EXCEPT !.reply = res])
              ELSE TileCallback(called, res))
    /\ UNCHANGED << allowedOrigins, procVars, scanVars, closeCalls, stopVars >>

\* lines 141-160.
MetadataRequest(name, origin, sync, res) ==
    /\ Accepting
    /\ OriginAllowed(origin)
    /\ LET r == Routed("metadata", name, << >>, origin)
           tileServer == Lookup(name)
           called == [r EXCEPT !.handle = tileServer, !.readerCalls = @ + 1]
       IN  reqs' = Append(reqs,
              IF tileServer = Undefined THEN Respond(r, 404, "Tile file not found")
              ELSE IF ~sync THEN [called EXCEPT !.stage = "fetching"]
              ELSE InfoCallback(called, res))
    /\ UNCHANGED << allowedOrigins, procVars, scanVars, closeCalls, stopVars >>

\* lines 110-137, in a later turn: an exception of the callback has no handler
\* above it (the file registers none for uncaughtException), so the process dies.
TileReply(i, res) ==
    /\ proc = "running"
    /\ reqs[i].stage = "fetching"
    /\ reqs[i].kind = "tile"
    /\ res \in TileResults(reqs[i].coord)
    /\ IF CallbackThrows(res)
       THEN /\ reqs' = [reqs EXCEPT ![i].reply = res]
            /\ Exit(1, "uncaught")
       ELSE /\ reqs' = [reqs EXCEPT ![i] = TileCallback(@, res)]
            /\ UNCHANGED procVars
    /\ UNCHANGED << allowedOrigins, scanVars, closeCalls, stopVars >>

\* lines 152-159, in a later turn.
InfoReply(i, res) ==
    /\ proc = "running"
    /\ reqs[i].stage = "fetching"
    /\ reqs[i].kind = "metadata"
    /\ reqs' = [reqs EXCEPT ![i] = InfoCallback(@, res)]
    /\ UNCHANGED << allowedOrigins, procVars, scanVars, closeCalls, stopVars >>

(***************************************************************************)
(* Shutdown.                                                               *)
(***************************************************************************)
\* A gracefulShutdown that clears the pending timer before it sets the new one.
SignalRestartsTimer ==
    /\ proc = "running"
    /\ signalCount < MaxSignals
    /\ signalCount' = signalCount + 1
    /\ listening' = FALSE
    /\ closeCallbacks' = closeCallbacks + 1
    /\ timers' = << now + ShutdownTimeoutMs >>
    /\ inflightAtSignal' = IF signalCount = 0 THEN InFlight ELSE inflightAtSignal
    /\ UNCHANGED << allowedOrigins, procVars, scanVars, closeCalls, reqs, now >>

\* lines 169-186: gracefulShutdown, run for SIGTERM or SIGINT.  server.close stops
\* the listener and keeps the callback for the server's 'close' event.
Signal ==
    /\ proc = "running"
    /\ signalCount < MaxSignals
    /\ signalCount' = signalCount + 1
    /\ listening' = FALSE
    /\ closeCallbacks' = closeCallbacks + 1
    /\ timers' = Append(timers, now + ShutdownTimeoutMs)
    /\ inflightAtSignal' = IF signalCount = 0 THEN InFlight ELSE inflightAtSignal
    /\ UNCHANGED << allowedOrigins, procVars, scanVars, closeCalls, reqs, now >>

\* A shutdown that closes the handles without waiting for the requests in flight.
ServerClosedWithoutDrain ==
    /\ proc = "running"
    /\ closeCallbacks > 0
    /\ closeCalls' = [f \in AllFiles |->
                         IF \E k \in DOMAIN tileServers : tileServers[k] = f
                         THEN closeCalls[f] + 1 ELSE closeCalls[f]]
    /\ Exit(0, "graceful")
    /\ UNCHANGED << allowedOrigins, scanVars, reqs, stopVars >>

\* lines 171-179: the 'close' event, once the listener is stopped and no connection
\* is left; the first callback closes every handle and exits.
ServerClosed ==
    /\ proc = "running"
    /\ closeCallbacks > 0
    /\ InFlight = {}
    /\ closeCalls' = [f \in AllFiles |->
                         IF \E k \in DOMAIN tileServers : tileServers[k] = f
                         THEN closeCalls[f] + 1 ELSE closeCalls[f]]
    /\ Exit(0, "graceful")
    /\ UNCHANGED << allowedOrigins, scanVars, reqs, stopVars >>

\* A timer that gives up while requests are still in flight.
ForcedShutdownWhenIdle ==
    /\ proc = "running"
    /\ InFlight = {}
    /\ \E k \in 1..Len(timers) : timers[k] <= now
    /\ Exit(1, "forced")
    /\ UNCHANGED << allowedOrigins, scanVars, closeCalls, reqs, stopVars >>

\* lines 182-185: a timer of gracefulShutdown expires.
ForcedShutdown ==
    /\ proc = "running"
    /\ \E k \in 1..Len(timers) : timers[k] <= now
    /\ Exit(1, "forced")
    /\ UNCHANGED << allowedOrigins, scanVars, closeCalls, reqs, stopVars >>

\* Time passes, up to the next timer that is due.
Tick ==
    /\ proc = "running"
    /\ signalCount > 0
    /\ \A k \in 1..Len(timers) : timers[k] > now
    /\ now' = now + TickMs
    /\ UNCHANGED << allowedOrigins, procVars, scanVars, closeCalls, reqs, listening,
                    signalCount, timers, closeCallbacks, inflightAtSignal >>

Next ==
    \/ ReaddirError
    \/ \E files \in Listings : ReaddirListed(files)
    \/ \E file \in AllFiles, ok \in BOOLEAN : OpenCallback(file, ok)
    \/ \E origin \in Origins :
          \/ CorsRejected("health", << >>, << >>, origin)
          \/ CorsRejected("tile", <<"a">>, <<0, 0, 0>>, origin)
          \/ CorsRejected("metadata", <<"a">>, << >>, origin)
    \/ \E origin \in Origins : HealthRequest(origin)
    \/ \E path \in TilePaths, origin \in Origins, sync \in BOOLEAN :
          \E res \in TileResults(path[2]) :
              TileRequest(path[1], path[2], origin, sync, res)
    \/ \E name \in RequestNames, origin \in Origins, sync \in BOOLEAN,
          res \in InfoResults : MetadataRequest(name, origin, sync, res)
    \/ \E i \in 1..Len(reqs), res \in AllTileResults : TileReply(i, res)
    \/ \E i \in 1..Len(reqs), res \in InfoResults : InfoReply(i, res)
    \/ Signal
    \/ ServerClosed
    \/ ForcedShutdown
    \/ Tick

Spec == Init /\ [][Next]_vars

\* lines 182-185: a timer set by setTimeout expires when its delay has passed, and
\* the event loop then runs its callback.
FairSpec == Spec /\ WF_vars(Tick) /\ WF_vars(ForcedShutdown)

(***************************************************************************)
(* Properties.                                                             *)
(***************************************************************************)
Received == 1..Len(reqs)

\* The requests that arrive in the step.
Arriving == (Len(reqs) + 1)..Len(reqs')

\* C1: a tile or metadata request that reaches its route handler while the name
\* has no entry in the registry (no key `name.mbtiles`) is answered 404 in that
\* step, the reader is not called for it, and nothing touches it afterwards; this
\* holds from the first state on, the startup scan included.
C1_UnknownArchive404 ==
    [][ /\ \A i \in Arriving :
              ( /\ reqs'[i].routed
                /\ reqs'[i].kind \in {"tile", "metadata"}
                /\ Append(reqs'[i].name, Ext) \notin DOMAIN tileServers )
              => ( /\ reqs'[i].stage = "done"
                   /\ reqs'[i].status = 404
                   /\ reqs'[i].readerCalls = 0 )
        /\ \A i \in Received : reqs[i].stage = "done" => reqs'[i] = reqs[i]
      ]_vars

\* C1's case: a tile request for an archive whose open has not settled yet got 404.
C1_Witness ==
    \E i \in Received :
        /\ reqs[i].routed /\ reqs[i].kind = "tile" /\ reqs[i].status = 404
        /\ reqs[i].readerCalls = 0
        /\ \E f \in AllFiles : f = Append(reqs[i].name, Ext) /\ openState[f] = "loading"

\* C2: when the reader reports the tile of a registered archive as absent, the
\* request is answered 204 with an empty body, never 404 or 500.
C2_AbsentTile204 ==
    \A i \in Received :
        (reqs[i].kind = "tile" /\ reqs[i].reply = AbsentReport)
        => ( /\ reqs[i].handle \in AllFiles
             /\ reqs[i].stage = "done"
             /\ reqs[i].status = 204
             /\ reqs[i].body = "" )

\* C2's case: the tile (1,1,1) of a ready archive was reported absent and answered.
C2_Witness ==
    \E i \in Received :
        /\ reqs[i].reply = AbsentReport /\ reqs[i].coord = << 1, 1, 1 >>
        /\ openState[reqs[i].handle] = "ready" /\ reqs[i].status = 204

\* C3 (as claimed): every failure of a tile fetch other than "tile absent", and every
\* failure of a metadata fetch, whatever the error value, is answered 500, and the
\* process is not brought down by it.
C3_ReaderFailure500 ==
    /\ exitCause # "uncaught"
    /\ \A i \in Received :
          (reqs[i].reply.type = "err" /\ reqs[i].reply # AbsentReport)
          => (reqs[i].stage = "done" /\ reqs[i].status = 500)

\* C4: a tile the reader found is answered 200; every header the archive supplied is
\* sent with the archive's value, and every default the archive did not set is sent
\* with the default value.
C4_TileHeadersMerged ==
    \A i \in Received :
        reqs[i].reply.type = "tile"
        => LET supplied == IF reqs[i].reply.hasHeaders
                           THEN DOMAIN reqs[i].reply.headers ELSE {}
               sent == reqs[i].headers
           IN  /\ reqs[i].stage = "done"
               /\ reqs[i].status = 200
               /\ \A k \in supplied : sent[k] = reqs[i].reply.headers[k]
               /\ "content-type" \notin supplied
                    => sent["content-type"] = "application/x-protobuf"
               /\ "cache-control" \notin supplied
                    => sent["cache-control"] = "public, max-age=3600"
               /\ "x-content-type-options" \notin supplied
                    => sent["x-content-type-options"] = "nosniff"

\* C4's case: an archive that set Content-Type and Content-Encoding: both are sent,
\* beside the defaults it left alone.
C4_Witness ==
    \E i \in Received :
        /\ reqs[i].reply.type = "tile" /\ reqs[i].reply.hasHeaders
        /\ reqs[i].status = 200
        /\ reqs[i].headers["content-type"] = "image/png"
        /\ reqs[i].headers["content-encoding"] = "gzip"
        /\ reqs[i].headers["cache-control"] = "public, max-age=3600"

\* C5 (as claimed): a /health request is answered 200 when some archive handle is
\* ready at that moment and 503 otherwise, whatever else is loading or failed.
C5_HealthIffReady ==
    [][ \A i \in Arriving :
            reqs'[i].kind = "health"
            => ( /\ reqs'[i].stage = "done"
                 /\ reqs'[i].status =
                        IF \E f \in AllFiles : openState[f] = "ready" THEN 200 ELSE 503 )
      ]_vars

\* C6: a file whose open fails is not in the registry and was opened once; the
\* failing callback leaves the process, the registry and every other file's open as
\* they were; a failed file stays failed and is not opened again; and while any
\* other open is pending its success can still happen, after which the file is in
\* the registry under its own name.
C6_FailedOpenIsolated ==
    /\ [](\A f \in AllFiles :
            /\ openState[f] = "failed" => (f \notin DOMAIN tileServers /\ openCount[f] = 1)
            /\ openState[f] = "ready" => (f \in DOMAIN tileServers /\ tileServers[f] = f)
            /\ (openState[f] = "loading" /\ proc = "running")
                  => ENABLED OpenCallback(f, TRUE))
    /\ [][ \A f \in AllFiles :
             /\ (openState[f] = "loading" /\ openState'[f] = "failed")
                  => ( /\ proc' = "running"
                       /\ tileServers' = tileServers
                       /\ openCount' = openCount
                       /\ \A g \in AllFiles \ {f} : openState'[g] = openState[g] )
             /\ openState[f] = "failed"
                  => (openState'[f] = "failed" /\ openCount'[f] = openCount[f])
         ]_vars

\* C6's case: one file failed to open, another became ready afterwards and a tile of
\* it was served.
C6_Witness ==
    \E f, g \in AllFiles :
        /\ openState[f] = "failed" /\ openState[g] = "ready"
        /\ proc = "running"
        /\ \E i \in Received : reqs[i].handle = g /\ reqs[i].status = 200

\* C7 (as claimed): after a signal with requests in flight, the process exits with
\* status 0 only when each of those requests has its response, and with status 1
\* only through the forced shutdown at the end of the wait window.
C7_ExitStatusAfterSignal ==
    (proc = "exited" /\ inflightAtSignal # {})
    => /\ exitCode = 0 => \A i \in inflightAtSignal : reqs[i].stage = "done"
       /\ exitCode = 1 => (exitCause = "forced" /\ now >= ShutdownTimeoutMs)

\* C8: a later signal leaves the first timer, the process, the requests, the
\* registry and the handles as they are; the forced exit comes when the first
\* timer is due, ShutdownTimeoutMs after the first signal, and no later; the
\* graceful exit comes only with nothing in flight; and no handle is closed twice.
C8_LaterSignalInert ==
    /\ [](/\ \A f \in AllFiles : closeCalls[f] <= 1
          /\ Len(timers) >= 1 => timers[1] = ShutdownTimeoutMs
          /\ exitCause = "forced"
               => (now >= ShutdownTimeoutMs /\ now < ShutdownTimeoutMs + TickMs)
          /\ exitCause = "graceful" => InFlight = {})
    /\ [][ (signalCount >= 1 /\ signalCount' > signalCount)
             => ( /\ SubSeq(timers', 1, Len(timers)) = timers
                  /\ UNCHANGED << procVars, scanVars, closeCalls, reqs, listening,
                                  inflightAtSignal, now >> )
         ]_vars

\* C8's case: a second signal arrived later than the first, and the forced exit still
\* came at the first deadline, before the second timer was due.
C8_Witness ==
    /\ signalCount = 2
    /\ timers[2] > timers[1]
    /\ exitCause = "forced"
    /\ now < timers[2]

\* C9: when fs.readdir fails the process exits with status 1, no archive has been
\* opened and no tile or metadata request has been answered 200; that exit is taken
\* only for the readdir failure; and a listed directory that leaves the registry
\* empty (no archive file, or every open failed) keeps the process running until a
\* signal, with every /health answer so far a 503.
C9_UnreadableDirectoryFatal ==
    /\ scan = "unreadable"
         => ( /\ Exited(1) /\ exitCause = "readdir"
              /\ \A f \in AllFiles : openCount[f] = 0 /\ openState[f] = "none"
              /\ \A i \in Received :
                    reqs[i].kind \in {"tile", "metadata"} => reqs[i].status # 200 )
    /\ exitCause = "readdir" => scan = "unreadable"
    /\ (scan = "listed" /\ DOMAIN tileServers = {})
         => ( /\ signalCount = 0 => proc = "running"
              /\ \A i \in Received :
                    (reqs[i].kind = "health" /\ reqs[i].routed) => reqs[i].status = 503 )

\* C9's case: the readdir failure ended the process after a tile request had come
\* in and been answered 404.
C9_Witness ==
    /\ scan = "unreadable" /\ Exited(1)
    /\ \E i \in Received : reqs[i].kind = "tile" /\ reqs[i].status = 404

\* C10 (as claimed): with the wildcard configured, every answered request that
\* carried an Origin header has Access-Control-Allow-Origin: * in its response.
C10_WildcardAllowOriginStar ==
    "*" \in allowedOrigins
    => \A i \in Received :
          (reqs[i].stage = "done" /\ reqs[i].origin # NoOrigin)
          => reqs[i].headers["access-control-allow-origin"] = "*"

\* C11 (as claimed): what the caller gets for a failed fetch does not depend on the
\* error value: every failure of a tile fetch other than "tile absent" is answered
\* 500 "Error loading tile" and every failure of a metadata fetch 500 "Error loading
\* metadata", whatever the reader reported.
C11_ErrorBodyIndependent ==
    \A i \in Received :
        (reqs[i].reply.type = "err" /\ reqs[i].reply # AbsentReport)
        => ( /\ reqs[i].stage = "done"
             /\ reqs[i].status = 500
             /\ reqs[i].body = IF reqs[i].kind = "tile" THEN "Error loading tile"
                               ELSE "Error loading metadata" )

\* C12: the registry changes only by gaining one new name, in the step in which the
\* open of that file succeeds; entries already there keep their handles; a step
\* that handles a request leaves the registry as it was.
C12_RegistryOnlyGrows ==
    [][ /\ \A k \in DOMAIN tileServers :
              k \in DOMAIN tileServers' /\ tileServers'[k] = tileServers[k]
        /\ tileServers' # tileServers
              => \E f \in AllFiles :
                    /\ f \notin DOMAIN tileServers
                    /\ DOMAIN tileServers' = DOMAIN tileServers \cup {f}
                    /\ openState[f] = "loading" /\ openState'[f] = "ready"
                    /\ openCount[f] = 1
        /\ reqs' # reqs => tileServers' = tileServers
      ]_vars

\* C12's case: both archives are registered and a request has been handled since.
C12_Witness ==
    /\ Cardinality(DOMAIN tileServers) = 2
    /\ \E i \in Received : reqs[i].stage = "done" /\ reqs[i].routed

C14_OneResponse ==
    [][ \A i \in 1..Len(reqs') :
          reqs'[i].kind = "tile"
          => /\ reqs'[i].sent <= 1
             /\ reqs'[i].stage = "done" <=> reqs'[i].sent = 1
             /\ reqs'[i].stage = "done"
                  => \/ reqs'[i].status = 200 /\ reqs'[i].body = "tile bytes"
                     \/ reqs'[i].status = 204 /\ reqs'[i].body = ""
                     \/ /\ reqs'[i].status \in {404, 500}
                        /\ reqs'[i].body # "tile bytes"
             /\ (i \in Received /\ reqs[i].stage = "done") => reqs'[i] = reqs[i]
      ]_vars

\* C14's case: a fetch that failed was answered once, with 500 and no tile.
C14_Witness ==
    \E i \in Received :
        /\ reqs[i].kind = "tile" /\ reqs[i].reply.type = "err"
        /\ reqs[i].sent = 1 /\ reqs[i].status = 500
        /\ reqs[i].body = "Error loading tile"

C16_CloseAllAfterOpensSettled ==
    exitCause = "graceful"
    => \A f \in AllFiles :
          /\ openState[f] # "loading"
          /\ openState[f] = "ready" => closeCalls[f] = 1

\* The lifecycle the state is in: the scan and its opens are under way (1), the
\* server serves (2), a signal has stopped the listener (3), the process is gone (4).
Lifecycle ==
    IF proc = "exited" THEN 4
    ELSE IF signalCount > 0 THEN 3
    ELSE IF scan = "pending" \/ \E f \in AllFiles : openState[f] = "loading" THEN 1
    ELSE 2

\* C17: the lifecycle never moves backwards, a stopped listener never listens again,
\* and after a termination signal the process eventually exits: the drain completes,
\* or the timer set at the signal expires and ends the process.
C17_ForwardAndStops ==
    /\ [][ /\ Lifecycle' >= Lifecycle
           /\ listening' => listening
           /\ proc = "exited" => proc' = "exited" ]_vars
    /\ (signalCount > 0) ~> (proc = "exited")

\* C17's case: the window expired with a request still in flight, and the process
\* was ended by the timer.
C17_Witness ==
    /\ proc = "exited" /\ exitCause = "forced"
    /\ InFlight # {}
    /\ now >= ShutdownTimeoutMs

\* C18: when the allowed origins do not hold the wildcard, a request whose Origin is
\* absent or not in the list is answered 500 "Internal Server Error" without
\* reaching a route handler or the reader, on every path and whatever is
\* registered; a request whose Origin is in the list reaches its route handler.
C18_CorsRejects ==
    [][ \A i \in Arriving :
          "*" \notin allowedOrigins
          => IF reqs'[i].origin \in allowedOrigins
             THEN reqs'[i].routed
             ELSE /\ ~reqs'[i].routed
                  /\ reqs'[i].stage = "done"
                  /\ reqs'[i].status = 500
                  /\ reqs'[i].body = "Internal Server Error"
                  /\ reqs'[i].readerCalls = 0 /\ reqs'[i].handle = Undefined
      ]_vars

\* C18's case: with an archive ready, a health request without an Origin header was
\* rejected.
C18_Witness ==
    /\ "*" \notin allowedOrigins
    /\ \E f \in AllFiles : openState[f] = "ready"
    /\ \E i \in Received :
          /\ reqs[i].kind = "health" /\ reqs[i].origin = NoOrigin
          /\ ~reqs[i].routed /\ reqs[i].status = 500

=============================================================================
